---------------------------- MODULE Spec2Model ----------------------------
(***************************************************************************)
(* Model of app.py: the GovernanceEngine (audit_content, _apply_fixes),    *)
(* render_diff and render_github_preview.                                  *)
(*                                                                         *)
(* Texts are TLA+ strings, i.e. sequences of characters: substring tests   *)
(* and replacements are computed character by character, as Python's       *)
(* `in` and str.replace compute them.                                      *)
(***************************************************************************)
EXTENDS Integers, Sequences, FiniteSets, TLC

VARIABLES
    mode,        \* GovernanceEngine.mode
    audit_log,   \* GovernanceEngine.audit_log (sequential engine)
    doc_input,   \* the draft text handed to audit_content
    nfrags,      \* number of fragments typed into the draft so far
    fixed_text,  \* the value audit_content returned last
    pc,          \* "draft" | "audited" | "shown"
    preview,     \* the value render_github_preview returned last
    prev_input,  \* the text whose corrected output was pasted as the draft
    pastes,      \* how often a corrected output was pasted back
    original,    \* render_diff's first argument
    modified,    \* render_diff's second argument
    diff,        \* the lines render_diff emitted
    lists,       \* concurrent engine: the list objects, by identity
    log_ref,     \* concurrent engine: the list self.audit_log is bound to
    cpc,         \* concurrent engine: each caller's position
    ctext,       \* concurrent engine: each caller's text argument
    ccorr,       \* concurrent engine: each caller's local `corrections`
    cfixed,      \* concurrent engine: the text each caller got back
    clog         \* concurrent engine: the list each caller read as `log`

vars == <<mode, audit_log, doc_input, nfrags, fixed_text, pc, preview,
          prev_input, pastes, original, modified, diff,
          lists, log_ref, cpc, ctext, ccorr, cfixed, clog>>

engineVars == <<mode, audit_log, doc_input, nfrags, fixed_text, pc, preview,
                prev_input, pastes>>
diffVars == <<original, modified, diff>>
concVars == <<lists, log_ref, cpc, ctext, ccorr, cfixed, clog>>

---------------------------------------------------------------------------
(* Bounds *)

\* Fragments concatenated into one draft text.
MaxFrags == 2
\* Times a corrected output is pasted back as the next draft.
MaxPastes == 1

---------------------------------------------------------------------------
(* Strings *)

\* Python: `p in s`
Contains(s, p) ==
    \E i \in 1..(Len(s) - Len(p) + 1) : SubSeq(s, i, i + Len(p) - 1) = p

\* Index of the leftmost occurrence of p in s (0: none), as str.find + 1.
Find(s, p) ==
    LET hits == {i \in 1..(Len(s) - Len(p) + 1) : SubSeq(s, i, i + Len(p) - 1) = p}
    IN  IF hits = {} THEN 0 ELSE CHOOSE i \in hits : \A j \in hits : i <= j

\* s.replace(old, new, 1): only the leftmost occurrence.
ReplaceFirst(s, old, new) ==
    LET i == Find(s, old)
    IN  IF i = 0 THEN s
        ELSE SubSeq(s, 1, i - 1) \o new \o SubSeq(s, i + Len(old), Len(s))

\* Python: s.replace(old, new) for a non-empty old: every non-overlapping
\* occurrence, leftmost first, in one pass (the replacement is not rescanned).
RECURSIVE Replace(_, _, _)
Replace(s, old, new) ==
    LET i == Find(s, old)
    IN  IF i = 0 THEN s
        ELSE SubSeq(s, 1, i - 1) \o new
             \o Replace(SubSeq(s, i + Len(old), Len(s)), old, new)

---------------------------------------------------------------------------
(* GovernanceEngine: the rule tables of audit_content *)

\* A rule is one `if` of audit_content: it fires when some string of `any`
\* occurs in the text and no string of `none` does; it then appends the
\* finding {type, severity, msg} and sets corrections[old] = new for every
\* <<old, new>> of `fixes`, in that order.
Rule(any, none, type, severity, msg, fixes) ==
    [any |-> any, none |-> none, type |-> type, severity |-> severity,
     msg |-> msg, fixes |-> fixes]

VersionRule ==
    Rule({"version 1.3.0"}, {}, "LOGIC", "High",
         "Lifecycle: v1.3.0 is EOL. Updated to 1.4.2.",
         << <<"version 1.3.0", "version 1.4.2">> >>)

PortRule ==
    Rule({"port 80", "port=80"}, {}, "LOGIC", "High",
         "Accuracy: Mgmt port is 8089, not 80.",
         << <<"port=80", "port=8089">>, <<"port 80", "port 8089">> >>)

DateRule ==
    Rule({"October 15, 2025"}, {}, "LOGIC", "Medium",
         "Roadmap: Mumbai launch moved to June 2025.",
         << <<"October 15, 2025", "June 15, 2025">> >>)

\* The same rule with the catch-all "username=" replacement registered
\* before the password removal.
CredentialRuleCatchAllFirst ==
    Rule({"username="}, {}, "SECURITY", "Critical",
         "Auth: Basic Auth deprecated. Used Token.",
         << <<"username='admin',", "splunk_token=os.environ['SPLUNK_TOKEN']">>,
            <<"username=", "# Auth updated to Token">>,
            <<"password='changeme'", "">> >>)

CredentialRule ==
    Rule({"username="}, {}, "SECURITY", "Critical",
         "Auth: Basic Auth deprecated. Used Token.",
         << <<"username='admin',", "splunk_token=os.environ['SPLUNK_TOKEN']">>,
            <<"password='changeme'", "">>,
            <<"username=", "# Auth updated to Token">> >>)

VoiceRule ==
    Rule({"Data is not sent"}, {}, "STYLE", "Low",
         "Voice: Passive voice rewritten.",
         << <<"Data is not sent to third-party LLM service providers",
              "Splunk does not send data to third-party LLM service providers">> >>)

SplunkRules == <<VersionRule, PortRule, DateRule, CredentialRule, VoiceRule>>

StageOpenRule ==
    Rule({"Usd.Stage.Open"}, {}, "LOGIC", "Critical",
         "Context: Manual Open forbidden in Kit.",
         << <<"Usd.Stage.Open(\"test.usd\")", "omni.usd.get_context().get_stage()">>,
            <<"# opens stage manually", "# Gets active stage context">> >>)

AsyncRule ==
    Rule({"def make_cube"}, {"async"}, "LOGIC", "High",
         "Performance: Main thread blocking. Added async.",
         << <<"def make_cube():", "async def make_cube():">> >>)

CubeVoiceRule ==
    Rule({"cube is created"}, {}, "STYLE", "Low",
         "Voice: Passive voice rewritten.",
         << <<"# cube is created", "# Asynchronously creates cube">> >>)

OmniverseRules == <<StageOpenRule, AsyncRule, CubeVoiceRule>>

TypeHintRule ==
    Rule({"def process(x, y)"}, {}, "LOGIC", "Medium",
         "Quality: Missing Type Hints.",
         << <<"def process(x, y):",
              "def process_data(data: list, multiplier: int) -> list:">> >>)

DocstringRule ==
    Rule({"data is processed"}, {}, "STYLE", "Low",
         "Docs: Missing Docstring.",
         << <<"# data is processed", "\"\"\"Processes data list safely.\"\"\"">> >>)

PythonRules == <<TypeHintRule, DocstringRule>>

Splunk == "Splunk Enterprise"
Omniverse == "NVIDIA Omniverse"
Python == "Standard Python (PEP8)"

\* The modes the if/elif chain of audit_content has a branch for.
KnownModes == {Splunk, Omniverse, Python}

\* The branch audit_content takes for self.mode; no branch, no rule.
RulesOf(m) ==
    CASE m = Splunk -> SplunkRules
      [] m = Omniverse -> OmniverseRules
      [] m = Python -> PythonRules
      [] OTHER -> << >>

---------------------------------------------------------------------------
(* GovernanceEngine: audit_content and _apply_fixes *)

\* The condition of a rule's `if`, without its `not in` part.
FiresIgnoringNone(rule, text) ==
    \E s \in rule.any : Contains(text, s)

\* The condition of a rule's `if`, evaluated on the text as passed in.
Fires(rule, text) ==
    /\ \E s \in rule.any : Contains(text, s)
    /\ \A s \in rule.none : ~Contains(text, s)

\* The dict entry appended to audit_log.
Finding(rule) ==
    [type |-> rule.type, severity |-> rule.severity, msg |-> rule.msg]

\* corrections[old] = new on an insertion-ordered dict: a key already
\* present keeps its place and takes the new value, a new key goes last.
DictSet(corr, old, new) ==
    IF \E k \in 1..Len(corr) : corr[k][1] = old
    THEN [k \in 1..Len(corr) |->
             IF corr[k][1] = old THEN <<old, new>> ELSE corr[k]]
    ELSE Append(corr, <<old, new>>)

RECURSIVE MergeFixes(_, _)
MergeFixes(corr, fixes) ==
    IF fixes = << >> THEN corr
    ELSE MergeFixes(DictSet(corr, Head(fixes)[1], Head(fixes)[2]), Tail(fixes))

\* One `if` of audit_content with the corrections registered outside it.
RuleStepUnguarded(rule, text, st) ==
    [log |-> IF Fires(rule, text) THEN Append(st.log, Finding(rule)) ELSE st.log,
     corrections |-> MergeFixes(st.corrections, rule.fixes)]

\* One `if` of audit_content: st is (audit_log, corrections) before it.
RuleStep(rule, text, st) ==
    IF Fires(rule, text)
    THEN [log |-> Append(st.log, Finding(rule)),
          corrections |-> MergeFixes(st.corrections, rule.fixes)]
    ELSE st

RECURSIVE RunRules(_, _, _)
RunRules(rules, text, st) ==
    IF rules = << >> THEN st
    ELSE RunRules(Tail(rules), text, RuleStep(Head(rules), text, st))

\* A loop that never assigns the replaced string back.
ApplyFixesDiscarded(text, corrections) == text

\* _apply_fixes: the replacements chained in the dict's iteration order.
RECURSIVE ApplyFixes(_, _)
ApplyFixes(text, corrections) ==
    IF corrections = << >> THEN text
    ELSE ApplyFixes(Replace(text, Head(corrections)[1], Head(corrections)[2]),
                    Tail(corrections))

\* An engine that keeps appending to the list of the call before.
ResetLogKept(log) == log

\* self.audit_log = [] at the top of audit_content.
ResetLog(log) == << >>

\* audit_content(text) on an engine of mode m whose audit_log is log:
\* the audit_log it leaves and the text it returns.
AuditContent(m, log, text) ==
    LET st == RunRules(RulesOf(m), text,
                       [log |-> ResetLog(log), corrections |-> << >>])
    IN  [audit_log |-> st.log, fixed_text |-> ApplyFixes(text, st.corrections)]

---------------------------------------------------------------------------
(* render_github_preview *)

\* fixed_text[:200]
PreviewChars == 200

Min(a, b) == IF a < b THEN a ELSE b

\* One table row of the comment. The two icons of the source are written
\* by name ("red" for a Critical finding, "warn" otherwise).
PreviewRow(item) ==
    [icon |-> IF item.severity = "Critical" THEN "red" ELSE "warn",
     type |-> item.type, msg |-> item.msg]

\* render_github_preview(audit_log, fixed_text): the status line, the rows
\* in audit_log order and the code block of the markdown it returns.
RenderGithubPreview(log, text) ==
    [status |-> "Failed (Auto-Fixed)",
     rows |-> [i \in 1..Len(log) |-> PreviewRow(log[i])],
     code |-> SubSeq(text, 1, Min(PreviewChars, Len(text))) \o "..."]

NoPreview == [status |-> "", rows |-> << >>, code |-> ""]

---------------------------------------------------------------------------
(* The engine used call after call: Spec *)

Modes == KnownModes \cup {"nonexistent"}

\* The pieces drafts are typed from, per mode: each rule's trigger and
\* replacement targets, pieces that only become a trigger once a correction
\* has deleted text between them, and text no rule mentions.
Fragments(m) ==
    CASE m = Splunk ->
           {"port=80", "port 80", "version 1.3.0", "October 15, 2025",
            "username='admin'", ",", "password='changeme'",
            "userpassword='changeme'name=",
            "version password='changeme'1.3.0",
            "Data is not sent", " to third-party LLM service providers",
            "host='localhost'"}
      [] m = Omniverse ->
           {"Usd.Stage.Open(\"test.usd\")", "Usd.Stage.Open",
            "# opens stage manually", "def make_cube():", "async ",
            "# cube is created", "stage.DefinePrim()"}
      [] m = Python ->
           {"def process(x, y)", ":", "# data is processed", "return x"}
      [] OTHER -> {"port=80", "plain text"}

Audited == pc \in {"audited", "shown"}

InitDiffIdle ==
    /\ original = ""
    /\ modified = ""
    /\ diff = << >>

InitConcIdle ==
    /\ lists = << >>
    /\ log_ref = 0
    /\ cpc = << >>
    /\ ctext = << >>
    /\ ccorr = << >>
    /\ cfixed = << >>
    /\ clog = << >>

\* GovernanceEngine(mode): __init__ leaves audit_log empty.
Init ==
    /\ mode \in Modes
    /\ audit_log = << >>
    /\ doc_input = ""
    /\ nfrags = 0
    /\ fixed_text = ""
    /\ pc = "draft"
    /\ preview = NoPreview
    /\ prev_input = << >>
    /\ pastes = 0
    /\ InitDiffIdle
    /\ InitConcIdle

\* The user types one more fragment into the draft.
TypeDraft(f) ==
    /\ nfrags < MaxFrags
    /\ prev_input = << >>
    /\ doc_input' = doc_input \o f
    /\ nfrags' = nfrags + 1
    /\ pc' = "draft"
    /\ UNCHANGED <<mode, audit_log, fixed_text, preview, prev_input, pastes>>
    /\ UNCHANGED <<diffVars, concVars>>

\* fixed_text = engine.audit_content(doc_input)
RunAudit ==
    /\ LET r == AuditContent(mode, audit_log, doc_input)
       IN  /\ audit_log' = r.audit_log
           /\ fixed_text' = r.fixed_text
    /\ pc' = "audited"
    /\ UNCHANGED <<mode, doc_input, nfrags, preview, prev_input, pastes>>
    /\ UNCHANGED <<diffVars, concVars>>

\* render_github_preview(log, fixed_text)
ShowPreview ==
    /\ pc = "audited"
    /\ preview' = RenderGithubPreview(audit_log, fixed_text)
    /\ pc' = "shown"
    /\ UNCHANGED <<mode, audit_log, doc_input, nfrags, fixed_text, prev_input, pastes>>
    /\ UNCHANGED <<diffVars, concVars>>

\* The verified output is copied back as the next draft.
PasteFixed ==
    /\ Audited
    /\ pastes < MaxPastes
    /\ prev_input' = <<doc_input>>
    /\ doc_input' = fixed_text
    /\ pastes' = pastes + 1
    /\ pc' = "draft"
    /\ UNCHANGED <<mode, audit_log, nfrags, fixed_text, preview>>
    /\ UNCHANGED <<diffVars, concVars>>

Next ==
    \/ \E f \in Fragments(mode) : TypeDraft(f)
    \/ RunAudit
    \/ ShowPreview
    \/ PasteFixed

Spec == Init /\ [][Next]_vars

---------------------------------------------------------------------------
(* Properties of the engine under Spec *)

\* How many entries of log equal the finding f.
Count(log, f) == Cardinality({i \in 1..Len(log) : log[i] = f})

PortFinding ==
    [type |-> "LOGIC", severity |-> "High",
     msg |-> "Accuracy: Mgmt port is 8089, not 80."]

CredentialFinding ==
    [type |-> "SECURITY", severity |-> "Critical",
     msg |-> "Auth: Basic Auth deprecated. Used Token."]

\* C1 as stated: after a Splunk audit of a text containing "port=80", the
\* log holds exactly one LOGIC/High port finding and the returned text
\* contains "port=8089" and does not contain "port=80".
C1_PortRuleAsStated ==
    (Audited /\ mode = Splunk /\ Contains(doc_input, "port=80"))
        => /\ Count(audit_log, PortFinding) = 1
           /\ Contains(fixed_text, "port=8089")
           /\ ~Contains(fixed_text, "port=80")

\* C1 amended: after a Splunk audit of a text containing "port=80", the log
\* holds exactly one LOGIC/High port finding and the returned text contains
\* "port=8089" (which itself begins with "port=80").
C1_PortRule ==
    (Audited /\ mode = Splunk /\ Contains(doc_input, "port=80"))
        => /\ Count(audit_log, PortFinding) = 1
           /\ Contains(fixed_text, "port=8089")

C1_Witness ==
    /\ Audited
    /\ mode = Splunk
    /\ Contains(doc_input, "port=80")
    /\ ~Contains(doc_input, "port=8089")
    /\ Contains(fixed_text, "port=8089")

\* C2: whenever an audit leaves audit_log empty, the text it returned is
\* the text it was given.
C2_CleanDocumentUnchanged ==
    (Audited /\ audit_log = << >>) => fixed_text = doc_input

C2_Witness ==
    /\ Audited
    /\ audit_log = << >>
    /\ mode = Splunk
    /\ Contains(doc_input, "password='changeme'")
    /\ fixed_text = doc_input

\* C4: after a Splunk audit of a text containing "username='admin'", the
\* log holds a SECURITY/Critical finding and the returned text, all
\* corrections applied in insertion order, contains no "username=".
C4_CredentialRule ==
    (Audited /\ mode = Splunk /\ Contains(doc_input, "username='admin'"))
        => /\ Count(audit_log, CredentialFinding) >= 1
           /\ ~Contains(fixed_text, "username=")

\* The credential text together with pieces that the password removal
\* joins into a new "username=".
C4_Witness ==
    /\ Audited
    /\ mode = Splunk
    /\ Contains(doc_input, "username='admin'")
    /\ Contains(doc_input, "userpassword='changeme'name=")
    /\ ~Contains(fixed_text, "username=")

\* C5 as stated: an Omniverse audit of a text without "Usd.Stage.Open"
\* leaves no finding and returns the text unchanged.
C5_CleanOmniverseAsStated ==
    (Audited /\ mode = Omniverse /\ ~Contains(doc_input, "Usd.Stage.Open"))
        => (audit_log = << >> /\ fixed_text = doc_input)

\* C5 amended: an Omniverse audit of a text that contains neither
\* "Usd.Stage.Open" nor "cube is created", and "def make_cube" only
\* together with "async", leaves no finding and returns the text unchanged.
C5_CleanOmniverse ==
    ( /\ Audited
      /\ mode = Omniverse
      /\ ~Contains(doc_input, "Usd.Stage.Open")
      /\ ~Contains(doc_input, "cube is created")
      /\ (Contains(doc_input, "def make_cube") => Contains(doc_input, "async")) )
        => (audit_log = << >> /\ fixed_text = doc_input)

C5_Witness ==
    /\ Audited
    /\ mode = Omniverse
    /\ ~Contains(doc_input, "Usd.Stage.Open")
    /\ ~Contains(doc_input, "cube is created")
    /\ Contains(doc_input, "def make_cube")
    /\ Contains(doc_input, "async")
    /\ audit_log = << >>
    /\ fixed_text = doc_input

\* C6 as stated: an audit under a mode that has no rule set never completes
\* as a normal result with empty findings and the text unchanged.
C6_UnknownProfileFails ==
    ~( /\ Audited
       /\ mode \notin KnownModes
       /\ audit_log = << >>
       /\ fixed_text = doc_input )

\* C7: whatever calls came before on the same engine, after
\* audit_content(T) the audit_log and the returned text are those of a
\* fresh engine of the same mode given T.
C7_Deterministic ==
    Audited =>
        LET fresh == AuditContent(mode, << >>, doc_input)
        IN  /\ audit_log = fresh.audit_log
            /\ fixed_text = fresh.fixed_text

\* A second call on an engine whose first call left findings.
C7_Witness ==
    /\ Audited
    /\ prev_input # << >>
    /\ prev_input[1] # doc_input
    /\ audit_log = << >>

\* A rule whose predicate is the one substring S, and whose corrections
\* replace S by text that does not contain S.
SelfRemediating(rule) ==
    /\ Cardinality(rule.any) = 1
    /\ rule.none = {}
    /\ \E k \in 1..Len(rule.fixes) : rule.fixes[k][1] \in rule.any
    /\ \A k \in 1..Len(rule.fixes) : \A S \in rule.any :
           ~Contains(rule.fixes[k][2], S)

RuleSet(m) == {RulesOf(m)[i] : i \in 1..Len(RulesOf(m))}

ReAudited == Audited /\ prev_input # << >>

\* C8 as stated: when the output of an audit is audited again, no
\* self-remediating rule fires.
C8_ReAuditAsStated ==
    ReAudited =>
        \A rule \in RuleSet(mode) :
            SelfRemediating(rule) => Count(audit_log, Finding(rule)) = 0

\* C8 amended: when the output of an audit of T is audited again, a
\* self-remediating rule does not fire, provided no correction applied
\* after its own deletes text: the credential rule never fires again, and
\* the version and date rules do not when T has no "username=" (so that the
\* password removal was not registered).
C8_ReAudit ==
    ReAudited =>
        \A rule \in RuleSet(mode) :
            ( /\ SelfRemediating(rule)
              /\ \/ rule.any = {"username="}
                 \/ ~Contains(prev_input[1], "username=") )
                => Count(audit_log, Finding(rule)) = 0

\* A re-audit of an output in which the first audit replaced two
\* occurrences of "username=".
C8_Witness ==
    /\ ReAudited
    /\ mode = Splunk
    /\ Contains(prev_input[1], "username='admin'username='admin'")
    /\ prev_input[1] # doc_input
    /\ Count(audit_log, CredentialFinding) = 0

\* C9 as stated: the preview shows status Pass when audit_log is empty and
\* Failed (Auto-Fixed) otherwise, with one row per finding in log order.
C9_ReportStatus ==
    pc = "shown" =>
        /\ preview.status = IF audit_log = << >> THEN "Pass"
                            ELSE "Failed (Auto-Fixed)"
        /\ Len(preview.rows) = Len(audit_log)
        /\ \A i \in 1..Len(audit_log) :
               /\ preview.rows[i].type = audit_log[i].type
               /\ preview.rows[i].msg = audit_log[i].msg

---------------------------------------------------------------------------
(* render_diff *)

\* The line boundaries of str.splitlines() that the texts below can hold
\* ("\r\n" is one boundary).
LineBreaks == {"\n", "\r"}

\* Python: s.splitlines(). A boundary ends a line, so a text that ends with
\* one has no empty last line, and "" has no line at all.
RECURSIVE SplitLines(_)
SplitLines(s) ==
    LET breaks == {i \in 1..Len(s) : SubSeq(s, i, i) \in LineBreaks}
    IN  IF s = "" THEN << >>
        ELSE IF breaks = {} THEN <<s>>
        ELSE LET i == CHOOSE k \in breaks : \A l \in breaks : k <= l
                 w == IF /\ SubSeq(s, i, i) = "\r"
                         /\ i < Len(s)
                         /\ SubSeq(s, i + 1, i + 1) = "\n"
                      THEN 2 ELSE 1
             IN  <<SubSeq(s, 1, i - 1)>> \o SplitLines(SubSeq(s, i + w, Len(s)))

\* difflib.SequenceMatcher.find_longest_match without junk, on a[alo:ahi]
\* and b[blo:bhi] (offsets from 0, as in Python): the longest common block,
\* the one starting earliest in a, then earliest in b; size 0 when there is
\* none. a and b are both strings or both sequences of lines.
FindLongestMatch(a, alo, ahi, b, blo, bhi) ==
    LET blocks == {m \in (alo..(ahi - 1)) \X (blo..(bhi - 1)) \X (1..(ahi - alo)) :
                      /\ m[1] + m[3] <= ahi
                      /\ m[2] + m[3] <= bhi
                      /\ SubSeq(a, m[1] + 1, m[1] + m[3])
                             = SubSeq(b, m[2] + 1, m[2] + m[3])}
        Better(m, n) == \/ m[3] > n[3]
                        \/ m[3] = n[3] /\ m[1] < n[1]
                        \/ m[3] = n[3] /\ m[1] = n[1] /\ m[2] <= n[2]
    IN  IF blocks = {} THEN <<alo, blo, 0>>
        ELSE CHOOSE m \in blocks : \A n \in blocks : Better(m, n)

\* The number of matched elements SequenceMatcher.ratio() counts: the sizes
\* of get_matching_blocks(), found by splitting around the longest match.
RECURSIVE Matches(_, _, _, _, _, _)
Matches(a, alo, ahi, b, blo, bhi) ==
    LET m == FindLongestMatch(a, alo, ahi, b, blo, bhi)
    IN  IF m[3] = 0 THEN 0
        ELSE Matches(a, alo, m[1], b, blo, m[2]) + m[3]
             + Matches(a, m[1] + m[3], ahi, b, m[2] + m[3], bhi)

\* ratio() = 2 * matches / (len(a) + len(b)), kept as a fraction <<num, den>>.
Ratio(x, y) == <<2 * Matches(x, 0, Len(x), y, 0, Len(y)), Len(x) + Len(y)>>

\* Differ._dump: the lines a[lo:hi], each behind the two-character tag.
Dump(tag, a, lo, hi) == [k \in 1..(hi - lo) |-> tag \o " " \o a[lo + k]]

\* Differ._plain_replace: the shorter side first.
PlainReplace(a, alo, ahi, b, blo, bhi) ==
    IF bhi - blo < ahi - alo
    THEN Dump("+", b, blo, bhi) \o Dump("-", a, alo, ahi)
    ELSE Dump("-", a, alo, ahi) \o Dump("+", b, blo, bhi)

\* Differ._fancy_replace on a block with no equal pair of lines: the most
\* similar pair (ratio at least 0.75; the first such in b-major order) is
\* the synch point, put out as a "- " and a "+ " line (its "? " hint lines
\* are left out: render_diff drops them), with the lines before and after
\* it handled the same way (Differ._fancy_helper); a block without a
\* similar pair is a plain replace.
RECURSIVE FancyReplace(_, _, _, _, _, _)
FancyReplace(a, alo, ahi, b, blo, bhi) ==
    LET pairs == (alo..(ahi - 1)) \X (blo..(bhi - 1))
        R(p) == Ratio(a[p[1] + 1], b[p[2] + 1])
        Close(p) == 4 * R(p)[1] >= 3 * R(p)[2]
        Above(p, q) == R(p)[1] * R(q)[2] > R(q)[1] * R(p)[2]
        First(p, q) == p[2] < q[2] \/ (p[2] = q[2] /\ p[1] <= q[1])
        close == {p \in pairs : Close(p)}
        top == {p \in close : \A q \in close : ~Above(q, p)}
        Helper(lo1, hi1, lo2, hi2) ==
            IF lo1 < hi1
            THEN IF lo2 < hi2 THEN FancyReplace(a, lo1, hi1, b, lo2, hi2)
                 ELSE Dump("-", a, lo1, hi1)
            ELSE Dump("+", b, lo2, hi2)
    IN  IF close = {} THEN PlainReplace(a, alo, ahi, b, blo, bhi)
        ELSE LET best == CHOOSE p \in top : \A q \in top : First(p, q)
             IN  Helper(alo, best[1], blo, best[2])
                 \o <<"- " \o a[best[1] + 1], "+ " \o b[best[2] + 1]>>
                 \o Helper(best[1] + 1, ahi, best[2] + 1, bhi)

\* difflib.Differ().compare(a, b): the opcodes of the matching blocks, each
\* turned into tagged lines ("  " equal, "- " delete, "+ " insert, and a
\* replace block through _fancy_replace).
RECURSIVE Compare(_, _, _, _, _, _)
Compare(a, alo, ahi, b, blo, bhi) ==
    LET m == FindLongestMatch(a, alo, ahi, b, blo, bhi)
    IN  IF m[3] > 0
        THEN Compare(a, alo, m[1], b, blo, m[2])
             \o Dump(" ", a, m[1], m[1] + m[3])
             \o Compare(a, m[1] + m[3], ahi, b, m[2] + m[3], bhi)
        ELSE IF alo < ahi /\ blo < bhi THEN FancyReplace(a, alo, ahi, b, blo, bhi)
        ELSE IF alo < ahi THEN Dump("-", a, alo, ahi)
        ELSE Dump("+", b, blo, bhi)

\* The span render_diff appends for one line of the Differ; "? " lines are
\* skipped (they are never produced by Compare above).
DiffLine(line) ==
    [kind |-> CASE SubSeq(line, 1, 2) = "+ " -> "Added"
                [] SubSeq(line, 1, 2) = "- " -> "Removed"
                [] OTHER -> "Unchanged",
     line |-> line]

\* render_diff(original, modified): the spans between the opening and the
\* closing <div>, in order.
RenderDiff(orig, modi) ==
    LET a == SplitLines(orig)
        b == SplitLines(modi)
        lines == Compare(a, 0, Len(a), b, 0, Len(b))
    IN  [k \in 1..Len(lines) |-> DiffLine(lines[k])]

---------------------------------------------------------------------------
(* render_diff on any two texts: SpecDiff *)

\* Characters per text.
MaxTextLen == 3

DiffChars == {"a", "b", "\n", "\r"}

RECURSIVE TextsUpTo(_)
TextsUpTo(n) ==
    IF n = 0 THEN {""}
    ELSE LET shorter == TextsUpTo(n - 1)
         IN  shorter \cup {t \o c : t \in shorter, c \in DiffChars}

DiffTexts == TextsUpTo(MaxTextLen)

InitEngineIdle ==
    /\ mode = Splunk
    /\ audit_log = << >>
    /\ doc_input = ""
    /\ nfrags = 0
    /\ fixed_text = ""
    /\ preview = NoPreview
    /\ prev_input = << >>
    /\ pastes = 0

InitDiff ==
    /\ original \in DiffTexts
    /\ modified \in DiffTexts
    /\ diff = << >>
    /\ pc = "draft"
    /\ InitEngineIdle
    /\ InitConcIdle

\* st.markdown(render_diff(doc_input, fixed_text))
ShowDiff ==
    /\ pc = "draft"
    /\ diff' = RenderDiff(original, modified)
    /\ pc' = "diffed"
    /\ UNCHANGED <<original, modified, concVars>>
    /\ UNCHANGED <<mode, audit_log, doc_input, nfrags, fixed_text, preview,
                   prev_input, pastes>>

NextDiff == ShowDiff

SpecDiff == InitDiff /\ [][NextDiff]_vars

\* The text of a diff line without its two-character tag.
Content(d) == SubSeq(d.line, 3, Len(d.line))

\* The contents of the lines that are not Removed, joined by "\n".
RECURSIVE Reconstruct(_)
Reconstruct(d) ==
    IF d = << >> THEN ""
    ELSE LET rest == Reconstruct(Tail(d))
             kept == {k \in 1..Len(Tail(d)) : Tail(d)[k].kind # "Removed"}
         IN  IF Head(d).kind = "Removed" THEN rest
             ELSE IF kept = {} THEN Content(Head(d))
             ELSE Content(Head(d)) \o "\n" \o rest

\* C10 as stated: the Added and Unchanged lines of render_diff(T, C), joined
\* by newline, are C exactly, also when C ends with a newline or is empty.
C10_DiffRoundTrip ==
    pc = "diffed" => Reconstruct(diff) = modified

---------------------------------------------------------------------------
(* Two callers of audit_content on one engine: SpecConc *)

\* Each caller runs engine.audit_content(text) and then reads
\* engine.audit_log, as the results section does. time.sleep at the top of
\* audit_content lets another thread run; between any two statements the
\* interpreter may switch threads. Only the rebinding of self.audit_log and
\* the appends to the list it is bound to touch shared state; `corrections`
\* and `text` are locals.
Callers == {1, 2}

At(c) == cpc[c].at

Goto(c, at, k) == [cpc EXCEPT ![c] = [at |-> at, k |-> k]]

\* The position after the k-th `if` of the mode's branch.
AfterRule(c, k) ==
    IF k < Len(RulesOf(mode)) THEN Goto(c, "rule", k + 1)
    ELSE Goto(c, "apply", 0)

\* GovernanceEngine(mode), and two callers about to call audit_content
\* with different texts.
InitConc ==
    /\ mode \in Modes
    /\ lists = << << >> >>
    /\ log_ref = 1
    /\ cpc = [c \in Callers |-> [at |-> "reset", k |-> 0]]
    /\ ctext \in [Callers -> Fragments(mode)]
    /\ ctext[1] # ctext[2]
    /\ ccorr = [c \in Callers |-> << >>]
    /\ cfixed = [c \in Callers |-> ""]
    /\ clog = [c \in Callers |-> 0]
    /\ pc = "draft"
    /\ audit_log = << >>
    /\ doc_input = ""
    /\ nfrags = 0
    /\ fixed_text = ""
    /\ preview = NoPreview
    /\ prev_input = << >>
    /\ pastes = 0
    /\ InitDiffIdle

\* self.audit_log = [] ; corrections = {}
CallerReset(c) ==
    /\ At(c) = "reset"
    /\ lists' = Append(lists, << >>)
    /\ log_ref' = Len(lists) + 1
    /\ ccorr' = [ccorr EXCEPT ![c] = << >>]
    /\ cpc' = AfterRule(c, 0)
    /\ UNCHANGED <<ctext, cfixed, clog>>
    /\ UNCHANGED <<engineVars, diffVars>>

\* The k-th `if` of the branch: self.audit_log.append(...) goes to the list
\* self.audit_log is bound to when the append runs.
CallerRule(c) ==
    /\ At(c) = "rule"
    /\ LET rule == RulesOf(mode)[cpc[c].k]
       IN  IF Fires(rule, ctext[c])
           THEN /\ lists' = [lists EXCEPT ![log_ref] = Append(@, Finding(rule))]
                /\ ccorr' = [ccorr EXCEPT ![c] = MergeFixes(@, rule.fixes)]
           ELSE UNCHANGED <<lists, ccorr>>
    /\ cpc' = AfterRule(c, cpc[c].k)
    /\ UNCHANGED <<log_ref, ctext, cfixed, clog>>
    /\ UNCHANGED <<engineVars, diffVars>>

\* return self._apply_fixes(text, corrections)
CallerApply(c) ==
    /\ At(c) = "apply"
    /\ cfixed' = [cfixed EXCEPT ![c] = ApplyFixes(ctext[c], ccorr[c])]
    /\ cpc' = Goto(c, "read", 0)
    /\ UNCHANGED <<lists, log_ref, ctext, ccorr, clog>>
    /\ UNCHANGED <<engineVars, diffVars>>

\* log = engine.audit_log: a reference to the list, not a copy.
CallerRead(c) ==
    /\ At(c) = "read"
    /\ clog' = [clog EXCEPT ![c] = log_ref]
    /\ cpc' = Goto(c, "done", 0)
    /\ UNCHANGED <<lists, log_ref, ctext, ccorr, cfixed>>
    /\ UNCHANGED <<engineVars, diffVars>>

NextConc ==
    \E c \in Callers :
        \/ CallerReset(c)
        \/ CallerRule(c)
        \/ CallerApply(c)
        \/ CallerRead(c)

SpecConc == InitConc /\ [][NextConc]_vars

\* C3 as stated: under every interleaving each caller ends up with exactly
\* the findings and the corrected text that its audit run alone gives.
C3_ConcurrentAuditsIsolated ==
    \A c \in Callers :
        At(c) = "done" =>
            LET alone == AuditContent(mode, << >>, ctext[c])
            IN  /\ lists[clog[c]] = alone.audit_log
                /\ cfixed[c] = alone.fixed_text

=============================================================================
